---- MODULE Spec2Model ----
(***************************************************************************)
(* Model of the epistles plugin (epistles_commands.py): the registry file  *)
(* registry.ndjson, the satellite documents of the epistle directory and   *)
(* the commands new / list / show / search / add-context that read and     *)
(* rewrite them.                                                           *)
(*                                                                         *)
(* Strings are sequences of one-character strings, so that lower(),        *)
(* replace(), split(), join() and startswith() are computed character by   *)
(* character as Python computes them.  The local time zone is UTC.  One    *)
(* command invocation reads the clock once (it completes within the        *)
(* second) and suffers at most one I/O fault; faults counts the faults of  *)
(* the run.  created is history: the file name and the clock second of     *)
(* every epistle cmd_epistle_new built.  procs holds the invocations in    *)
(* flight when commands run as concurrent processes: the position of each  *)
(* in its command and its local variables.                                 *)
(***************************************************************************)
EXTENDS Integers, Sequences, FiniteSets, TLC

VARIABLES clock, dir, registryFile, last, faults, created, procs

vars == <<clock, dir, registryFile, last, faults, created, procs>>

(***************************************************************************)
(* Bounds of the model.                                                    *)
(***************************************************************************)
MaxTick == 1
MaxRecords == 2
MaxFaults == 1

(***************************************************************************)
(* Python string primitives.                                               *)
(***************************************************************************)
UpperChars == <<"A","B","C","D","E","F","G","H","I","J","K","L","M",
                "N","O","P","Q","R","S","T","U","V","W","X","Y","Z">>

LowerChars == <<"a","b","c","d","e","f","g","h","i","j","k","l","m",
                "n","o","p","q","r","s","t","u","v","w","x","y","z">>

DigitChars == <<"0","1","2","3","4","5","6","7","8","9">>

\* the lower-case letter of each upper-case letter, and the reverse
ToLower == [c \in {UpperChars[i] : i \in DOMAIN UpperChars} |->
              LowerChars[CHOOSE i \in DOMAIN UpperChars : UpperChars[i] = c]]

ToUpper == [c \in {LowerChars[i] : i \in DOMAIN LowerChars} |->
              UpperChars[CHOOSE i \in DOMAIN LowerChars : LowerChars[i] = c]]

LowerChar(c) == IF c \in DOMAIN ToLower THEN ToLower[c] ELSE c

\* str.lower()
Lower(s) == [i \in DOMAIN s |-> LowerChar(s[i])]

UpperChar(c) == IF c \in DOMAIN ToUpper THEN ToUpper[c] ELSE c

\* str.upper(): used to build the identifiers a user may type
Upper(s) == [i \in DOMAIN s |-> UpperChar(s[i])]

\* str.replace(old, new) for one-character old and new
Replace(s, old, new) == [i \in DOMAIN s |-> IF s[i] = old THEN new ELSE s[i]]

\* str.startswith(prefix)
StartsWith(s, prefix) ==
  /\ Len(prefix) <= Len(s)
  /\ SubSeq(s, 1, Len(prefix)) = prefix

RECURSIVE Split(_, _)
\* str.split(sep) for a one-character sep: always at least one piece
Split(s, sep) ==
  IF \E i \in DOMAIN s : s[i] = sep
  THEN LET i == CHOOSE k \in DOMAIN s :
                  /\ s[k] = sep
                  /\ \A j \in 1..(k - 1) : s[j] # sep
       IN <<SubSeq(s, 1, i - 1)>> \o Split(SubSeq(s, i + 1, Len(s)), sep)
  ELSE <<s>>

RECURSIVE Join(_, _)
\* sep.join(parts)
Join(sep, parts) ==
  IF parts = <<>> THEN <<>>
  ELSE IF Len(parts) = 1 THEN parts[1]
  ELSE parts[1] \o sep \o Join(sep, Tail(parts))

RECURSIVE IntStr(_)
\* str(n) for n >= 0
IntStr(n) ==
  IF n < 10 THEN <<DigitChars[n + 1]>>
  ELSE IntStr(n \div 10) \o <<DigitChars[(n % 10) + 1]>>

RECURSIVE Pad(_, _)
\* zero padding of strftime fields (%m, %d, %H, %M, %S, %Y)
Pad(n, width) ==
  IF width = 0 THEN <<>>
  ELSE Pad(n \div 10, width - 1) \o <<DigitChars[(n % 10) + 1]>>

(***************************************************************************)
(* The clock: seconds since the epoch.  The first invocation happens at    *)
(* 2025-10-28 23:59:58, two seconds before the date changes.               *)
(***************************************************************************)
ClockStart == (20389 * 86400) + 86398

\* the civil date of a day number (days since 1970-01-01), as gmtime computes it
CivilFromDays(days) ==
  LET z   == days + 719468
      era == z \div 146097
      doe == z - (era * 146097)
      yoe == (doe - (doe \div 1460) + (doe \div 36524) - (doe \div 146096)) \div 365
      doy == doe - ((365 * yoe) + (yoe \div 4) - (yoe \div 100))
      mp  == ((5 * doy) + 2) \div 153
      d   == doy - (((153 * mp) + 2) \div 5) + 1
      m   == IF mp < 10 THEN mp + 3 ELSE mp - 9
      y   == yoe + (era * 400) + (IF m <= 2 THEN 1 ELSE 0)
  IN [year |-> y, month |-> m, day |-> d]

\* time.strftime("%Y%m%dT%H%M%S")
StrfTimestamp(t) ==
  LET c == CivilFromDays(t \div 86400)
      s == t % 86400
  IN Pad(c.year, 4) \o Pad(c.month, 2) \o Pad(c.day, 2) \o <<"T">>
       \o Pad(s \div 3600, 2) \o Pad((s % 3600) \div 60, 2) \o Pad(s % 60, 2)

\* time.strftime("%Y-%m-%d")
StrfDate(t) ==
  LET c == CivilFromDays(t \div 86400)
  IN Pad(c.year, 4) \o <<"-">> \o Pad(c.month, 2) \o <<"-">> \o Pad(c.day, 2)

\* f"epistle-{int(time.time())}"
EpistleIdTens(t) == <<"e","p","i","s","t","l","e","-">> \o IntStr(t \div 10)

EpistleId(t) == <<"e","p","i","s","t","l","e","-">> \o IntStr(t)

(***************************************************************************)
(* Python values that may be None: None, a str, a list.                    *)
(***************************************************************************)
PyNone == [py |-> "None"]

PyStr(s) == [py |-> "str", s |-> s]

PyList(l) == [py |-> "list", l |-> l]

\* truth value of an optional argument (None, "" and [] are falsy)
Truthy(v) ==
  /\ v # PyNone
  /\ v.py = "str" => v.s # <<>>
  /\ v.py = "list" => v.l # <<>>

\* dict.get(key, default)
Get(ep, key, default) == IF key \in DOMAIN ep THEN ep[key] ELSE default

(***************************************************************************)
(* JSON: json.dumps(ep) makes one object per line, json.loads(line) reads  *)
(* it back.  A str becomes a JSON string, a list a JSON array of strings,  *)
(* None the JSON null.                                                     *)
(***************************************************************************)
ListKeys == {"personas", "references", "context", "keywords"}

OptKeys == {"prompted_by"}

JNull == [j |-> "null"]

JString(s) == [j |-> "string", s |-> s]

JArray(a) == [j |-> "array", a |-> a]

DumpsOmitNone(ep) ==
  [k \in {x \in DOMAIN ep : ~(x \in OptKeys /\ ep[x] = PyNone)} |->
     IF k \in ListKeys THEN JArray([i \in DOMAIN ep[k] |-> JString(ep[k][i])])
     ELSE IF k \in OptKeys THEN JString(ep[k].s)
     ELSE JString(ep[k])]

Dumps(ep) ==
  [k \in DOMAIN ep |->
     IF k \in ListKeys THEN JArray([i \in DOMAIN ep[k] |-> JString(ep[k][i])])
     ELSE IF k \in OptKeys
          THEN (IF ep[k] = PyNone THEN JNull ELSE JString(ep[k].s))
     ELSE JString(ep[k])]

Loads(obj) ==
  [k \in DOMAIN obj |->
     IF obj[k].j = "array" THEN [i \in DOMAIN obj[k].a |-> obj[k].a[i].s]
     ELSE IF obj[k].j = "null" THEN PyNone
     ELSE IF k \in OptKeys THEN PyStr(obj[k].s)
     ELSE obj[k].s]

(***************************************************************************)
(* I/O faults.  at: the call that fails ("doc" the template write, "load", *)
(* "save"); kind "open": the open() raises and the file is untouched;      *)
(* kind "partial": k whole lines get through, and torn tells whether a     *)
(* fragment of the next line follows them (the model lets a write that     *)
(* fails on its first line leave a fragment of it).                        *)
(***************************************************************************)
NoFault == [at |-> "none", kind |-> "none", k |-> 0, torn |-> FALSE]

DocFaults ==
  { [at |-> "doc", kind |-> "open", k |-> 0, torn |-> FALSE],
    [at |-> "doc", kind |-> "partial", k |-> 0, torn |-> TRUE] }

\* a read that raises after k lines (k = 0: the open() raises)
LoadFaults(file) ==
  IF file.exists
  THEN { [at |-> "load", kind |-> "partial", k |-> k, torn |-> FALSE] :
           k \in 0..(Len(file.lines) - 1) }
  ELSE {}

\* a write of n lines that raises: at open(), or after k whole lines
SaveFaults(n) ==
  { [at |-> "save", kind |-> "open", k |-> 0, torn |-> FALSE] }
    \cup { [at |-> "save", kind |-> "partial", k |-> k, torn |-> (k = 0)] :
             k \in 0..(n - 1) }

\* the message a failed call prints on stderr
Msg(failed, text) == IF failed THEN {text} ELSE {}

(***************************************************************************)
(* The Registry Store.                                                     *)
(***************************************************************************)
NoFile == [exists |-> FALSE, lines |-> <<>>, torn |-> FALSE]

\* _load_registry: the epistles read, and whether "Error loading registry"
\* was printed.  A torn last line fails to parse; the exception ends the loop.
LoadRegistry(file, fault) ==
  IF ~file.exists THEN [epistles |-> <<>>, err |-> FALSE]
  ELSE IF fault.at = "load"
       THEN [epistles |-> [i \in 1..fault.k |-> Loads(file.lines[i])], err |-> TRUE]
       ELSE [epistles |-> [i \in DOMAIN file.lines |-> Loads(file.lines[i])],
             err |-> file.torn]

SaveRegistryAppend(file, epistles, fault) ==
  [file |-> [exists |-> TRUE,
             lines |-> file.lines \o [i \in DOMAIN epistles |-> Dumps(epistles[i])],
             torn |-> FALSE],
   err |-> FALSE]

\* _save_registry: open(registry_file, 'w') truncates, then the lines are
\* written.  The file after the call, and whether "Error saving registry"
\* was printed.
SaveRegistry(file, epistles, fault) ==
  IF fault.at = "save"
  THEN IF fault.kind = "open"
       THEN [file |-> file, err |-> TRUE]
       ELSE [file |-> [exists |-> TRUE,
                       lines |-> [i \in 1..fault.k |-> Dumps(epistles[i])],
                       torn |-> fault.torn],
             err |-> TRUE]
  ELSE [file |-> [exists |-> TRUE,
                  lines |-> [i \in DOMAIN epistles |-> Dumps(epistles[i])],
                  torn |-> FALSE],
        err |-> FALSE]

\* the registry as a fault-free _load_registry reads it
Registry(file) == LoadRegistry(file, NoFault).epistles

(***************************************************************************)
(* Satellite documents.                                                    *)
(***************************************************************************)
Untitled == <<"U","n","t","i","t","l","e","d">>

Draft == <<"d","r","a","f","t">>

SelfInitiated == <<"s","e","l","f","-","i","n","i","t","i","a","t","e","d">>

MdExt == <<".","m","d">>

\* _render_context
RenderContext(context_files) ==
  IF context_files = <<>> THEN <<"[No context documents attached yet]">>
  ELSE <<"**Referenced documents:**">> \o context_files

\* the text _write_epistle_template formats, by its variable parts
Template(ep) ==
  [ title       |-> ep.personas,
    id          |-> ep.id,
    date        |-> ep.date,
    topic       |-> ep.topic,
    prompted_by |-> IF Truthy(ep.prompted_by) THEN ep.prompted_by.s ELSE SelfInitiated,
    status      |-> ep.status,
    context     |-> RenderContext(Get(ep, "context", <<>>)),
    first       |-> ep.personas[1],
    second      |-> ep.personas[2],
    complete    |-> TRUE ]

\* _write_epistle_template: the directory after the call, and whether
\* "Error writing epistle" was printed
WriteEpistleTemplate(d, path, ep, fault) ==
  IF fault.at = "doc"
  THEN IF fault.kind = "open"
       THEN [dir |-> d, err |-> TRUE]
       ELSE [dir |-> [n \in DOMAIN d \cup {path} |->
                        IF n = path THEN [Template(ep) EXCEPT !.complete = FALSE]
                        ELSE d[n]],
             err |-> TRUE]
  ELSE [dir |-> [n \in DOMAIN d \cup {path} |->
                   IF n = path THEN Template(ep) ELSE d[n]],
        err |-> FALSE]

\* what one invocation leaves behind for its caller: exit status, stderr
\* messages, the epistles it printed or located, the document text it printed
Outcome(op, args, fault, exit, stderr, out, doc) ==
  [op |-> op, args |-> args, fault |-> fault, exit |-> exit,
   stderr |-> stderr, out |-> out, doc |-> doc]

(***************************************************************************)
(* rhizome epistle new                                                     *)
(***************************************************************************)
\* args.with_personas.split(',') if args.with_personas else []
PersonasOf(args) ==
  IF Truthy(args.with_personas) THEN Split(args.with_personas.s, ",") ELSE <<>>

TooFewPersonasNone(personas) == Len(personas) < 1

\* if len(personas) < 2
TooFewPersonas(personas) == Len(personas) < 2

\* "_".join([p.lower().replace(" ", "-") for p in personas])
PersonaSlug(personas) ==
  Join(<<"_">>, [i \in DOMAIN personas |-> Replace(Lower(personas[i]), " ", "-")])

BaseFilename(slug, timestamp) == slug \o <<"_">> \o timestamp \o MdExt

SuffixedFilename(slug, timestamp, counter) ==
  slug \o <<"_">> \o timestamp \o <<"_">> \o IntStr(counter) \o MdExt

ProbeOnce(d, slug, timestamp, counter, unique_filename) ==
  IF unique_filename \in DOMAIN d
  THEN SuffixedFilename(slug, timestamp, counter + 1)
  ELSE unique_filename

RECURSIVE Probe(_, _, _, _, _)
\* the while loop: counter and unique_filename until the name is unused
Probe(d, slug, timestamp, counter, unique_filename) ==
  IF unique_filename \in DOMAIN d
  THEN Probe(d, slug, timestamp, counter + 1,
             SuffixedFilename(slug, timestamp, counter + 1))
  ELSE unique_filename

UniqueFilename(d, slug, timestamp) ==
  Probe(d, slug, timestamp, 0, BaseFilename(slug, timestamp))

\* the epistle dict of cmd_epistle_new
NewEpistle(args, t, d) ==
  LET personas == PersonasOf(args)
  IN [ id          |-> EpistleId(t),
       date        |-> StrfDate(t),
       personas    |-> personas,
       topic       |-> IF Truthy(args.topic) THEN args.topic.s ELSE Untitled,
       prompted_by |-> IF Truthy(args.prompted_by) THEN args.prompted_by ELSE PyNone,
       file        |-> UniqueFilename(d, PersonaSlug(personas), StrfTimestamp(t)),
       status      |-> Draft,
       references  |-> <<>>,
       context     |-> IF Truthy(args.context) THEN args.context.l ELSE <<>>,
       keywords    |-> IF Truthy(args.keywords) THEN Split(args.keywords.s, ",") ELSE <<>> ]

\* cmd_epistle_new run at second t on directory d and registry file: the
\* directory and the file it leaves, and its outcome.  With one persona the
\* template's personas[1] raises IndexError before anything is written.
NewRun(args, t, d, file, fault) ==
  LET personas == PersonasOf(args)
  IN IF TooFewPersonas(personas)
     THEN [dir |-> d, file |-> file, built |-> {},
           outcome |-> Outcome("new", args, fault, 1,
                               {"Error: Need at least 2 personas"}, <<>>, <<>>)]
     ELSE IF Len(personas) < 2
     THEN [dir |-> d, file |-> file, built |-> {},
           outcome |-> Outcome("new", args, fault, 1, {"IndexError"}, <<>>, <<>>)]
     ELSE LET epistle  == NewEpistle(args, t, d)
              written  == WriteEpistleTemplate(d, epistle.file, epistle, fault)
              loaded   == LoadRegistry(file, fault)
              epistles == Append(loaded.epistles, epistle)
              saved    == SaveRegistry(file, epistles, fault)
          IN [dir |-> written.dir, file |-> saved.file,
              built |-> {[file |-> epistle.file, at |-> t]},
              outcome |-> Outcome("new", args, fault, 0,
                                  Msg(written.err, "Error writing epistle")
                                    \cup Msg(loaded.err, "Error loading registry")
                                    \cup Msg(saved.err, "Error saving registry"),
                                  <<epistle>>, <<>>)]

\* the faults a `new` on this registry file can meet
NewFaults(file) ==
  {NoFault} \cup DocFaults \cup LoadFaults(file) \cup SaveFaults(Len(file.lines) + 1)

New(args, fault) ==
  LET run == NewRun(args, clock, dir, registryFile, fault)
  IN /\ Len(registryFile.lines) < MaxRecords
     /\ Cardinality(DOMAIN dir) < MaxRecords
     /\ fault # NoFault => (faults < MaxFaults /\ run.outcome.exit = 0)
     /\ dir' = run.dir
     /\ registryFile' = run.file
     /\ last' = run.outcome
     /\ faults' = IF fault = NoFault THEN faults ELSE faults + 1
     /\ created' = created \cup run.built
     /\ UNCHANGED <<clock, procs>>

(***************************************************************************)
(* rhizome epistle add-context                                             *)
(***************************************************************************)
FindByIdOrPrefix(epistles, target) ==
  IF \E i \in DOMAIN epistles :
       Lower(epistles[i].id) = target \/ StartsWith(Lower(epistles[i].file), target)
  THEN CHOOSE i \in DOMAIN epistles :
         /\ Lower(epistles[i].id) = target \/ StartsWith(Lower(epistles[i].file), target)
         /\ \A j \in 1..(i - 1) :
              ~(Lower(epistles[j].id) = target
                  \/ StartsWith(Lower(epistles[j].file), target))
  ELSE 0

\* index of the first epistle whose id.lower() equals target, 0 if none
FindById(epistles, target) ==
  IF \E i \in DOMAIN epistles : Lower(epistles[i].id) = target
  THEN CHOOSE i \in DOMAIN epistles :
         /\ Lower(epistles[i].id) = target
         /\ \A j \in 1..(i - 1) : Lower(epistles[j].id) # target
  ELSE 0

RECURSIVE ExtendContextDup(_, _)
ExtendContextDup(context, paths) ==
  IF paths = <<>> THEN context
  ELSE ExtendContextDup(Append(context, Head(paths)), Tail(paths))

RECURSIVE ExtendContext(_, _)
\* for ctx_file in args.context: append it unless it is in the context
ExtendContext(context, paths) ==
  IF paths = <<>> THEN context
  ELSE ExtendContext(IF \E i \in DOMAIN context : context[i] = Head(paths)
                     THEN context
                     ELSE Append(context, Head(paths)),
                     Tail(paths))

WithContextReplaced(ep, args) ==
  IF Truthy(args.context)
  THEN [k \in DOMAIN ep \cup {"context"} |->
          IF k = "context" THEN ExtendContext(<<>>, args.context.l) ELSE ep[k]]
  ELSE ep

\* the located epistle after the context loop (the dict is changed in place)
WithContext(ep, args) ==
  IF Truthy(args.context)
  THEN [k \in DOMAIN ep \cup (IF ExtendContext(Get(ep, "context", <<>>), args.context.l) # <<>>
                               THEN {"context"} ELSE {}) |->
          IF k = "context"
          THEN ExtendContext(Get(ep, "context", <<>>), args.context.l)
          ELSE ep[k]]
  ELSE ep

\* cmd_epistle_add_context run on a registry file
AddContextRun(args, file, fault) ==
  LET loaded == LoadRegistry(file, fault)
      i      == FindById(loaded.epistles, Lower(args.epistle_id))
  IN IF i = 0
     THEN [file |-> file,
           outcome |-> Outcome("add-context", args, fault, 1,
                               Msg(loaded.err, "Error loading registry")
                                 \cup {"not found"}, <<>>, <<>>)]
     ELSE LET epistle  == WithContext(loaded.epistles[i], args)
              epistles == [loaded.epistles EXCEPT ![i] = epistle]
              saved    == SaveRegistry(file, epistles, fault)
          IN [file |-> saved.file,
              outcome |-> Outcome("add-context", args, fault, 0,
                                  Msg(loaded.err, "Error loading registry")
                                    \cup Msg(saved.err, "Error saving registry"),
                                  <<epistle>>, <<>>)]

\* the faults an `add-context` on this registry file can meet
AddContextFaults(file) ==
  {NoFault} \cup LoadFaults(file) \cup SaveFaults(Len(file.lines))

AddContext(args, fault) ==
  LET run == AddContextRun(args, registryFile, fault)
  IN /\ fault # NoFault => faults < MaxFaults
     /\ fault.at = "save" => run.outcome.exit = 0
     /\ registryFile' = run.file
     /\ last' = run.outcome
     /\ faults' = IF fault = NoFault THEN faults ELSE faults + 1
     /\ UNCHANGED <<clock, dir, created, procs>>

(***************************************************************************)
(* rhizome epistle show                                                    *)
(***************************************************************************)
\* the read of the satellite document raises
ReadFault == [at |-> "read", kind |-> "open", k |-> 0, torn |-> FALSE]

\* index of the first epistle whose id.lower() equals target or whose
\* file.lower() starts with target, 0 if none
FindByIdOrFile(epistles, target) ==
  IF \E i \in DOMAIN epistles :
       Lower(epistles[i].id) = target \/ StartsWith(Lower(epistles[i].file), target)
  THEN CHOOSE i \in DOMAIN epistles :
         /\ Lower(epistles[i].id) = target \/ StartsWith(Lower(epistles[i].file), target)
         /\ \A j \in 1..(i - 1) :
              ~(Lower(epistles[j].id) = target
                  \/ StartsWith(Lower(epistles[j].file), target))
  ELSE 0

ShowRunConflated(args, d, file, fault) ==
  LET loaded == LoadRegistry(file, fault)
      i      == FindByIdOrFile(loaded.epistles, Lower(args.epistle_id))
  IN IF i = 0 \/ loaded.epistles[i].file \notin DOMAIN d
     THEN Outcome("show", args, fault, 1,
                  Msg(loaded.err, "Error loading registry") \cup {"not found"},
                  <<>>, <<>>)
     ELSE Outcome("show", args, fault, 0,
                  Msg(loaded.err, "Error loading registry"),
                  <<loaded.epistles[i]>>, <<d[loaded.epistles[i].file]>>)

\* cmd_epistle_show run on directory d and a registry file
ShowRun(args, d, file, fault) ==
  LET loaded == LoadRegistry(file, fault)
      i      == FindByIdOrFile(loaded.epistles, Lower(args.epistle_id))
  IN IF i = 0
     THEN Outcome("show", args, fault, 1,
                  Msg(loaded.err, "Error loading registry") \cup {"not found"},
                  <<>>, <<>>)
     ELSE LET epistle == loaded.epistles[i]
          IN IF epistle.file \in DOMAIN d
             THEN IF fault.at = "read"
                  THEN Outcome("show", args, fault, 0,
                               Msg(loaded.err, "Error loading registry")
                                 \cup {"Error reading epistle"},
                               <<epistle>>, <<>>)
                  ELSE Outcome("show", args, fault, 0,
                               Msg(loaded.err, "Error loading registry"),
                               <<epistle>>, <<d[epistle.file]>>)
             ELSE Outcome("show", args, fault, 0,
                          Msg(loaded.err, "Error loading registry")
                            \cup {"Epistle file not found"},
                          <<epistle>>, <<>>)

\* the faults a `show` on this registry file can meet
ShowFaults(file) == {NoFault, ReadFault} \cup LoadFaults(file)

Show(args, fault) ==
  LET outcome == ShowRun(args, dir, registryFile, fault)
  IN /\ fault # NoFault => faults < MaxFaults
     /\ fault.at = "read" => "Error reading epistle" \in outcome.stderr
     /\ last' = outcome
     /\ faults' = IF fault = NoFault THEN faults ELSE faults + 1
     /\ UNCHANGED <<clock, dir, registryFile, created, procs>>

(***************************************************************************)
(* rhizome epistle list                                                    *)
(***************************************************************************)
\* the characters of the model in the order of their code points
CodePointOrder ==
  <<" ", ",", "-", ".">> \o DigitChars \o UpperChars \o <<"_">> \o LowerChars

\* ord(c), up to an order-preserving renumbering
Ord(c) == CHOOSE i \in DOMAIN CodePointOrder : CodePointOrder[i] = c

RECURSIVE StrLess(_, _)
\* s < t of two Python strings
StrLess(s, t) ==
  IF t = <<>> THEN FALSE
  ELSE IF s = <<>> THEN TRUE
  ELSE IF Head(s) = Head(t) THEN StrLess(Tail(s), Tail(t))
  ELSE Ord(Head(s)) < Ord(Head(t))

\* s >= t of two Python strings
StrGe(s, t) == ~StrLess(s, t)

\* the default of e.get('date', ...) in the date filter
NoDate == <<"0","0","0","0","-","0","0","-","0","0">>

\* [e for e in epistles if args.filter.lower() in [p.lower() for p in personas]]
FilterByPersona(epistles, filter) ==
  SelectSeq(epistles,
            LAMBDA e : Lower(filter) \in { Lower(Get(e, "personas", <<>>)[i]) :
                                             i \in DOMAIN Get(e, "personas", <<>>) })

FilterSinceStrict(epistles, since) ==
  SelectSeq(epistles, LAMBDA e : StrLess(since, Get(e, "date", NoDate)))

\* [e for e in epistles if e.get('date', '0000-00-00') >= args.since]
FilterSince(epistles, since) ==
  SelectSeq(epistles, LAMBDA e : StrGe(Get(e, "date", NoDate), since))

\* the number of leading elements of a sequence sorted by date, descending,
\* that an element of this date goes after
RECURSIVE KeptBefore(_, _)
KeptBefore(sorted, date) ==
  IF sorted = <<>> THEN 0
  ELSE IF StrGe(Get(Head(sorted), "date", <<>>), date)
       THEN 1 + KeptBefore(Tail(sorted), date)
       ELSE 0

RECURSIVE SortedByDateTiesReversed(_)
SortedByDateTiesReversed(epistles) ==
  IF epistles = <<>> THEN <<>>
  ELSE LET rest == SortedByDateTiesReversed(Tail(epistles))
           e    == Head(epistles)
           n    == KeptBefore(rest, Get(e, "date", <<>>))
       IN SubSeq(rest, 1, n) \o <<e>> \o SubSeq(rest, n + 1, Len(rest))

RECURSIVE SortedByDate(_)
\* sorted(epistles, key=lambda x: x.get('date', ''), reverse=True): the sort
\* is stable, also with reverse=True
SortedByDate(epistles) ==
  IF epistles = <<>> THEN <<>>
  ELSE LET rest == SortedByDate(SubSeq(epistles, 1, Len(epistles) - 1))
           e    == epistles[Len(epistles)]
           n    == KeptBefore(rest, Get(e, "date", <<>>))
       IN SubSeq(rest, 1, n) \o <<e>> \o SubSeq(rest, n + 1, Len(rest))

\* cmd_epistle_list run on a registry file: out is the sequence it prints
ListRun(args, file, fault) ==
  LET loaded   == LoadRegistry(file, fault)
      filtered == IF Truthy(args.filter)
                  THEN FilterByPersona(loaded.epistles, args.filter.s)
                  ELSE loaded.epistles
      since    == IF Truthy(args.since)
                  THEN FilterSince(filtered, args.since.s)
                  ELSE filtered
  IN Outcome("list", args, fault, 0, Msg(loaded.err, "Error loading registry"),
             SortedByDate(since), <<>>)

List(args, fault) ==
  /\ fault # NoFault => faults < MaxFaults
  /\ last' = ListRun(args, registryFile, fault)
  /\ faults' = IF fault = NoFault THEN faults ELSE faults + 1
  /\ UNCHANGED <<clock, dir, registryFile, created, procs>>

(***************************************************************************)
(* rhizome epistle search                                                  *)
(***************************************************************************)
\* the characters str.strip() removes
Whitespace == {" ", "\t", "\n", "\r"}

RECURSIVE LStrip(_)
LStrip(s) ==
  IF s # <<>> /\ Head(s) \in Whitespace THEN LStrip(Tail(s)) ELSE s

RECURSIVE RStrip(_)
RStrip(s) ==
  IF s # <<>> /\ s[Len(s)] \in Whitespace
  THEN RStrip(SubSeq(s, 1, Len(s) - 1))
  ELSE s

\* s.strip()
Strip(s) == RStrip(LStrip(s))

\* sub in s
Contains(s, sub) ==
  \E i \in 0..(Len(s) - Len(sub)) : SubSeq(s, i + 1, i + Len(sub)) = sub

FilterByTopicCased(epistles, topic) ==
  SelectSeq(epistles, LAMBDA e : Contains(Get(e, "topic", <<>>), topic))

\* [e for e in epistles if args.topic.lower() in e.get('topic', '').lower()]
FilterByTopic(epistles, topic) ==
  SelectSeq(epistles, LAMBDA e : Contains(Lower(Get(e, "topic", <<>>)), Lower(topic)))

\* [p.strip().lower() for p in args.personas.split(',')]
SearchPersonas(personas) ==
  { Lower(Strip(Split(personas, ",")[i])) : i \in DOMAIN Split(personas, ",") }

\* [e for e in epistles if any(p.lower() in search_personas for p in personas)]
FilterByPersonas(epistles, personas) ==
  SelectSeq(epistles,
            LAMBDA e : \E i \in DOMAIN Get(e, "personas", <<>>) :
                         Lower(Get(e, "personas", <<>>)[i]) \in SearchPersonas(personas))

\* [e for e in epistles if any(k.lower() in [kw.lower() for kw in keywords]
\*                             for k in set(args.keywords.split(',')))]
FilterByKeywords(epistles, keywords) ==
  SelectSeq(epistles,
            LAMBDA e : \E k \in DOMAIN Split(keywords, ",") :
                         \E i \in DOMAIN Get(e, "keywords", <<>>) :
                           Lower(Split(keywords, ",")[k])
                             = Lower(Get(e, "keywords", <<>>)[i]))

\* cmd_epistle_search run on a registry file: out is the sequence it prints
SearchRun(args, file, fault) ==
  LET loaded   == LoadRegistry(file, fault)
      topic    == IF Truthy(args.topic)
                  THEN FilterByTopic(loaded.epistles, args.topic.s)
                  ELSE loaded.epistles
      personas == IF Truthy(args.personas)
                  THEN FilterByPersonas(topic, args.personas.s)
                  ELSE topic
      keywords == IF Truthy(args.keywords)
                  THEN FilterByKeywords(personas, args.keywords.s)
                  ELSE personas
  IN Outcome("search", args, fault, 0, Msg(loaded.err, "Error loading registry"),
             keywords, <<>>)

Search(args, fault) ==
  /\ fault # NoFault => faults < MaxFaults
  /\ last' = SearchRun(args, registryFile, fault)
  /\ faults' = IF fault = NoFault THEN faults ELSE faults + 1
  /\ UNCHANGED <<clock, dir, registryFile, created, procs>>

(***************************************************************************)

(* The environment and the specification.                                  *)
(***************************************************************************)
\* the arguments of `new` the model draws from
NewArgs ==
  { [with_personas |-> PyStr(<<"a",",","b">>), topic |-> PyStr(<<"X">>),
     prompted_by |-> PyNone, context |-> PyNone, keywords |-> PyNone],
    [with_personas |-> PyStr(<<"A"," ","b",",","c">>), topic |-> PyStr(<<>>),
     prompted_by |-> PyStr(<<"f","p">>),
     context |-> PyList(<< <<"n">>, <<"n">> >>),
     keywords |-> PyStr(<<"k",",","J">>)],
    [with_personas |-> PyStr(<<"a">>), topic |-> PyStr(<<"X">>),
     prompted_by |-> PyNone, context |-> PyNone, keywords |-> PyNone],
    [with_personas |-> PyStr(<<>>), topic |-> PyStr(<<"X">>),
     prompted_by |-> PyNone, context |-> PyNone, keywords |-> PyNone] }

\* the arguments of `add-context` the model draws from
AddContextArgs ==
  { [epistle_id |-> EpistleId(ClockStart),
     context |-> PyList(<< <<"m">>, <<"n">>, <<"m">> >>)],
    [epistle_id |-> Upper(EpistleId(ClockStart + 1)), context |-> PyNone] }

\* the wall clock advances by one second
Tick ==
  /\ clock < ClockStart + MaxTick
  /\ clock' = clock + 1
  /\ UNCHANGED <<dir, registryFile, last, faults, created, procs>>

Init ==
  /\ clock = ClockStart
  /\ dir = << >>
  /\ registryFile = NoFile
  /\ last = Outcome("none", <<>>, NoFault, 0, {}, <<>>, <<>>)
  /\ faults = 0
  /\ created = {}
  /\ procs = << >>

NewStep ==
  \E args \in NewArgs, fault \in NewFaults(registryFile) : New(args, fault)

AddContextStep ==
  \E args \in AddContextArgs, fault \in AddContextFaults(registryFile) :
    AddContext(args, fault)

Next == Tick \/ NewStep \/ AddContextStep

Spec == Init /\ [][Next]_vars

(***************************************************************************)
(* The query specification: epistles are created (the template write may   *)
(* fail) and looked up.                                                    *)
(***************************************************************************)
\* the arguments of `new` of the query specification: the first persona of
\* the third is spelled like the id of an epistle of the next second
QueryNewArgs ==
  { [with_personas |-> PyStr(<<"a",",","b">>), topic |-> PyStr(<<"X">>),
     prompted_by |-> PyNone, context |-> PyNone, keywords |-> PyNone],
    [with_personas |-> PyStr(<<"A"," ","b",",","c">>), topic |-> PyStr(<<>>),
     prompted_by |-> PyStr(<<"f","p">>),
     context |-> PyList(<< <<"n">>, <<"n">> >>),
     keywords |-> PyStr(<<"k",",","J">>)],
    [with_personas |-> PyStr(EpistleId(ClockStart + 1) \o <<",","b">>),
     topic |-> PyStr(<<"x","y">>),
     prompted_by |-> PyNone, context |-> PyNone, keywords |-> PyNone] }

\* the arguments of `show` the model draws from
ShowArgs ==
  { [epistle_id |-> EpistleId(ClockStart + 1)],
    [epistle_id |-> Upper(EpistleId(ClockStart))],
    [epistle_id |-> <<"A","_">>],
    [epistle_id |-> <<"z">>] }

QueryNewStep ==
  \E args \in QueryNewArgs, fault \in {NoFault} \cup DocFaults : New(args, fault)

\* of the load faults of a show the query specification draws the failed open
ShowStep ==
  \E args \in ShowArgs,
     fault \in { f \in ShowFaults(registryFile) : f.k = 0 } :
    Show(args, fault)

NextQuery == Tick \/ QueryNewStep \/ ShowStep

SpecQuery == Init /\ [][NextQuery]_vars

(***************************************************************************)
(* The context specification: epistles are created and context paths are   *)
(* added to them, by id, by a file prefix and by the id of an epistle not  *)
(* yet created.                                                            *)
(***************************************************************************)
\* the arguments of `add-context` of the context specification: the
\* identifier of the third is a prefix of the file of an epistle of a and b,
\* the identifier of the second is the first persona of the third of
\* QueryNewArgs
ContextArgs ==
  { [epistle_id |-> EpistleId(ClockStart),
     context |-> PyList(<< <<"m">>, <<"n">>, <<"m">> >>)],
    [epistle_id |-> Upper(EpistleId(ClockStart + 1)),
     context |-> PyList(<< <<"n">> >>)],
    [epistle_id |-> <<"a","_","b">>, context |-> PyList(<< <<"m">> >>)] }

ContextNewStep ==
  \E args \in QueryNewArgs : New(args, NoFault)

ContextAddStep ==
  \E args \in ContextArgs,
     fault \in {NoFault} \cup SaveFaults(Len(registryFile.lines)) :
    AddContext(args, fault)

NextContext == Tick \/ ContextNewStep \/ ContextAddStep

SpecContext == Init /\ [][NextContext]_vars

(***************************************************************************)

(* The listing specification: epistles are created on both sides of        *)
(* midnight, listed and searched.                                          *)
(***************************************************************************)
\* the arguments of `new` of the listing specification: the second persona
\* of the third starts with a blank, as in --with "a, B"
ListNewArgs ==
  { [with_personas |-> PyStr(<<"a",",","b">>), topic |-> PyStr(<<"X">>),
     prompted_by |-> PyNone, context |-> PyNone, keywords |-> PyNone],
    [with_personas |-> PyStr(<<"A"," ","b",",","c">>), topic |-> PyStr(<<>>),
     prompted_by |-> PyNone, context |-> PyNone,
     keywords |-> PyStr(<<"k",",","J">>)],
    [with_personas |-> PyStr(<<"a",","," ","B">>), topic |-> PyStr(<<"x","y">>),
     prompted_by |-> PyNone, context |-> PyNone, keywords |-> PyStr(<<"j">>)] }

\* the arguments of `list` the model draws from
ListArgs ==
  { [filter |-> f, since |-> s] :
      f \in {PyNone, PyStr(<<>>), PyStr(<<"A">>)},
      s \in {PyNone, PyStr(StrfDate(ClockStart + 1)), PyStr(StrfDate(ClockStart + 2))} }

\* the arguments of `search` the model draws from
SearchArgs ==
  { [topic |-> PyNone, personas |-> PyNone, keywords |-> PyNone],
    [topic |-> PyStr(<<"x">>), personas |-> PyNone, keywords |-> PyNone],
    [topic |-> PyNone, personas |-> PyStr(<<" ","B",",","c">>), keywords |-> PyNone],
    [topic |-> PyNone, personas |-> PyNone, keywords |-> PyStr(<<"q",",","j">>)],
    [topic |-> PyStr(<<"Y">>), personas |-> PyStr(<<"A">>), keywords |-> PyStr(<<"J">>)] }

\* a run of the listing specification starts in the last second of the day
InitList ==
  /\ clock = ClockStart + 1
  /\ dir = << >>
  /\ registryFile = NoFile
  /\ last = Outcome("none", <<>>, NoFault, 0, {}, <<>>, <<>>)
  /\ faults = 0
  /\ created = {}
  /\ procs = << >>

TickList ==
  /\ clock < ClockStart + 1 + MaxTick
  /\ clock' = clock + 1
  /\ UNCHANGED <<dir, registryFile, last, faults, created, procs>>

ListNewStep ==
  \E args \in ListNewArgs : New(args, NoFault)

ListStep ==
  \E args \in ListArgs, fault \in {NoFault} \cup LoadFaults(registryFile) :
    List(args, fault)

SearchStep ==
  \E args \in SearchArgs : Search(args, NoFault)

NextList == TickList \/ ListNewStep \/ ListStep \/ SearchStep

SpecList == InitList /\ [][NextList]_vars

(***************************************************************************)

(* The race specification: two processes run `new` and `add-context`, one  *)
(* system call sequence at a time: the filename probe, the template write, *)
(* the registry load and the registry save of one invocation interleave    *)
(* with those of the other.                                                *)
(***************************************************************************)
Procs == {"p", "q"}

\* the arguments of `new` of the race specification
RaceNewArgs ==
  { [with_personas |-> PyStr(<<"a",",","b">>), topic |-> PyStr(<<"X">>),
     prompted_by |-> PyNone, context |-> PyNone, keywords |-> PyNone],
    [with_personas |-> PyStr(<<"b",",","c">>), topic |-> PyStr(<<>>),
     prompted_by |-> PyNone, context |-> PyNone, keywords |-> PyNone] }

\* the arguments of `add-context` of the race specification
RaceAddArgs ==
  { [epistle_id |-> EpistleId(ClockStart), context |-> PyList(<< <<"m">> >>)] }

\* a process between two invocations
Idle ==
  [pc |-> "done", op |-> "none", args |-> <<>>, epistle |-> <<>>,
   epistles |-> <<>>]

InitRace ==
  /\ clock = ClockStart
  /\ dir = << >>
  /\ registryFile = NoFile
  /\ last = Outcome("none", <<>>, NoFault, 0, {}, <<>>, <<>>)
  /\ faults = 0
  /\ created = {}
  /\ procs = [p \in Procs |-> Idle]

\* cmd_epistle_new up to the filename loop: the epistle dict is built
RaceProbe(p, args) ==
  /\ procs[p].pc = "done"
  /\ Len(registryFile.lines) < MaxRecords
  /\ Cardinality(DOMAIN dir) < MaxRecords
  /\ procs' = [procs EXCEPT ![p] =
                 [pc |-> "write", op |-> "new", args |-> args,
                  epistle |-> NewEpistle(args, clock, dir), epistles |-> <<>>]]
  /\ created' = created \cup {[file |-> NewEpistle(args, clock, dir).file,
                               at |-> clock]}
  /\ UNCHANGED <<clock, dir, registryFile, last, faults>>

\* _write_epistle_template(filepath, epistle)
RaceWrite(p) ==
  /\ procs[p].pc = "write"
  /\ dir' = WriteEpistleTemplate(dir, procs[p].epistle.file, procs[p].epistle,
                                 NoFault).dir
  /\ procs' = [procs EXCEPT ![p].pc = "load"]
  /\ UNCHANGED <<clock, registryFile, last, faults, created>>

\* epistles = _load_registry(); epistles.append(epistle)
RaceLoad(p) ==
  /\ procs[p].pc = "load"
  /\ procs' = [procs EXCEPT ![p].pc = "save",
                            ![p].epistles =
                              Append(Registry(registryFile), procs[p].epistle)]
  /\ UNCHANGED <<clock, dir, registryFile, last, faults, created>>

\* cmd_epistle_add_context up to the save: the load, the lookup and the
\* context loop
RaceAddLoad(p, args) ==
  LET loaded == Registry(registryFile)
      i      == FindById(loaded, Lower(args.epistle_id))
  IN /\ procs[p].pc = "done"
     /\ IF i = 0
        THEN /\ last' = AddContextRun(args, registryFile, NoFault).outcome
             /\ procs' = [procs EXCEPT ![p] = Idle]
        ELSE /\ last' = last
             /\ procs' = [procs EXCEPT ![p] =
                            [pc |-> "save", op |-> "add-context", args |-> args,
                             epistle |-> WithContext(loaded[i], args),
                             epistles |-> [loaded EXCEPT
                                             ![i] = WithContext(loaded[i], args)]]]
     /\ UNCHANGED <<clock, dir, registryFile, faults, created>>

\* _save_registry(epistles), and the end of the invocation
RaceSave(p) ==
  /\ procs[p].pc = "save"
  /\ registryFile' = SaveRegistry(registryFile, procs[p].epistles, NoFault).file
  /\ last' = Outcome(procs[p].op, procs[p].args, NoFault, 0, {},
                     <<procs[p].epistle>>, <<>>)
  /\ procs' = [procs EXCEPT ![p] = Idle]
  /\ UNCHANGED <<clock, dir, faults, created>>

RaceNewStep == \E p \in Procs, args \in RaceNewArgs : RaceProbe(p, args)

RaceWriteStep == \E p \in Procs : RaceWrite(p)

RaceLoadStep == \E p \in Procs : RaceLoad(p)

RaceAddStep == \E p \in Procs, args \in RaceAddArgs : RaceAddLoad(p, args)

RaceSaveStep == \E p \in Procs : RaceSave(p)

NextRace ==
  Tick \/ RaceNewStep \/ RaceWriteStep \/ RaceLoadStep \/ RaceAddStep \/ RaceSaveStep

SpecRace == InitRace /\ [][NextRace]_vars

(***************************************************************************)

(* The store specification: _save_registry and _load_registry applied to   *)
(* sequences of epistles.  last.args is the sequence given or saved last,  *)
(* last.out the sequence loaded last.                                      *)
(***************************************************************************)
\* the epistles cmd_epistle_new builds, before and after an add-context
StoreEpistles ==
  LET built == { NewEpistle(args, t, << >>) :
                   args \in QueryNewArgs, t \in ClockStart..(ClockStart + MaxTick) }
  IN built \cup { WithContext(ep, args) : ep \in built, args \in AddContextArgs }

\* the sequences of at most MaxRecords epistles
StoreInputs ==
  UNION { [1..n -> StoreEpistles] : n \in 0..MaxRecords }

\* a run of the store specification starts without a backing file, with
\* the sequence to save in last.args
InitStore ==
  /\ clock = ClockStart
  /\ dir = << >>
  /\ registryFile = NoFile
  /\ last \in { Outcome("none", epistles, NoFault, 0, {}, <<>>, <<>>) :
                  epistles \in StoreInputs }
  /\ faults = 0
  /\ created = {}
  /\ procs = << >>

\* _save_registry(epistles), of the sequence given or of the one just loaded
StoreSave ==
  /\ last.op \in {"none", "load"}
  /\ LET epistles == IF last.op = "load" THEN last.out ELSE last.args
     IN /\ registryFile' = SaveRegistry(registryFile, epistles, NoFault).file
        /\ last' = Outcome("save", epistles, NoFault, 0, {}, <<>>, <<>>)
  /\ UNCHANGED <<clock, dir, faults, created, procs>>

\* epistles = _load_registry()
StoreLoad ==
  /\ last.op \in {"none", "save"}
  /\ last' = Outcome("load", last.args, NoFault, 0, {},
                     LoadRegistry(registryFile, NoFault).epistles, <<>>)
  /\ UNCHANGED <<clock, dir, registryFile, faults, created, procs>>

NextStore == StoreSave \/ StoreLoad

SpecStore == InitStore /\ [][NextStore]_vars

(***************************************************************************)
(* Properties.                                                             *)
(***************************************************************************)
\* the ids of a sequence of epistles
Ids(epistles) == [i \in DOMAIN epistles |-> epistles[i].id]

RECURSIVE IsSubSeq(_, _)
\* s is t with some elements left out
IsSubSeq(s, t) ==
  IF s = <<>> THEN TRUE
  ELSE IF t = <<>> THEN FALSE
  ELSE IF Head(s) = Head(t) THEN IsSubSeq(Tail(s), Tail(t))
  ELSE IsSubSeq(s, Tail(t))

\* the index of the first occurrence of x in seq
FirstIndex(seq, x) ==
  CHOOSE i \in DOMAIN seq : seq[i] = x /\ \A j \in 1..(i - 1) : seq[j] # x

\* the elements of a sequence
Range(seq) == { seq[i] : i \in DOMAIN seq }

\* the number of occurrences of x in seq
Count(seq, x) == Cardinality({ i \in DOMAIN seq : seq[i] = x })

\* some persona of the record equals the name, case-insensitively
HasPersona(e, name) ==
  \E i \in DOMAIN e.personas : Lower(e.personas[i]) = Lower(name)

\* C1: the file values of the records of the registry are pairwise distinct.
FilesDistinct ==
  LET reg == Registry(registryFile)
  IN \A i, j \in DOMAIN reg : i # j => reg[i].file # reg[j].file

\* C2: a `new` whose satellite document could not be written leaves the
\* registry sequence as it was.
CreateAtomic ==
  [][(last'.op = "new" /\ last'.fault.at = "doc")
       => Registry(registryFile') = Registry(registryFile)]_vars

\* C3: add-context is idempotent: run again with the same arguments on the
\* registry file it has just written, a successful add-context leaves the file
\* and the epistle it reports as they are.
AddContextIdempotent ==
  \A args \in AddContextArgs :
    LET once  == AddContextRun(args, registryFile, NoFault)
        twice == AddContextRun(args, once.file, NoFault)
    IN once.outcome.exit = 0
         => /\ twice.file = once.file
            /\ twice.outcome.out = once.outcome.out

\* C3 witness: an add-context with context paths has just succeeded, and the
\* located record holds the path "m" once.
AddContextDone ==
  /\ last.op = "add-context"
  /\ last.exit = 0
  /\ last.fault = NoFault
  /\ Truthy(last.args.context)
  /\ \E i \in DOMAIN last.out[1].context : last.out[1].context[i] = <<"m">>
  /\ \E i \in DOMAIN Registry(registryFile) : Registry(registryFile)[i] = last.out[1]

\* C4: a load after a save returns the sequence saved, every field of every
\* record as it was saved (a None prompted_by still None), and a load without
\* a backing file returns the empty sequence.
RoundTrip ==
  /\ last.op = "save" => Registry(registryFile) = last.args
  /\ (last.op = "load" /\ registryFile.exists) => last.out = last.args
  /\ (last.op = "load" /\ ~registryFile.exists) => last.out = <<>>

\* C4 witness: a sequence of two records, one without prompted_by and one
\* with it, has been saved and loaded.
RoundTripDone ==
  /\ last.op = "load"
  /\ registryFile.exists
  /\ Len(last.out) >= 2
  /\ \E i \in DOMAIN last.out : last.out[i].prompted_by = PyNone
  /\ \E i \in DOMAIN last.out : last.out[i].prompted_by # PyNone
  /\ \E i \in DOMAIN last.out : last.out[i].context # <<>>

\* C5: a save that fails leaves the registry a load returns as it was.
SaveFailureKeepsFile ==
  [][(last'.op \in {"new", "add-context"} /\ last'.fault.at = "save")
       => Registry(registryFile') = Registry(registryFile)]_vars

\* C6: an invocation whose load or save failed does not end as a success.
FailureReported ==
  last.fault.at \in {"load", "save"} => last.exit # 0

\* C7: the ids of the registry before a step are still in the registry after
\* it, in the same order.
RecordsNeverRemoved ==
  [][IsSubSeq(Ids(Registry(registryFile)), Ids(Registry(registryFile')))]_vars

\* C8 (as claimed): the ids of the records of the registry are pairwise distinct.
IdsDistinct ==
  LET reg == Registry(registryFile)
  IN \A i, j \in DOMAIN reg : i # j => reg[i].id # reg[j].id

\* C8 (amended): two records of the registry built in different clock seconds
\* have different ids, and two built in the same second have the same id.
IdsDistinctAcrossSeconds ==
  LET reg == Registry(registryFile)
  IN \A i, j \in DOMAIN reg : \A x, y \in created :
       (x.file = reg[i].file /\ y.file = reg[j].file)
         => (x.at # y.at <=> reg[i].id # reg[j].id)

\* C8 witness: the registry holds two records built in different seconds.
TwoSecondsInRegistry ==
  LET reg == Registry(registryFile)
  IN /\ Len(reg) >= 2
     /\ \E i, j \in DOMAIN reg : \E x, y \in created :
          /\ i # j
          /\ x.file = reg[i].file
          /\ y.file = reg[j].file
          /\ x.at # y.at

\* C9: a `new` with fewer than 2 personas ends with exit status 1 and the
\* InvalidInput message, and leaves the directory and the registry file as
\* they were.
RejectsFewPersonas ==
  [][(last'.op = "new" /\ Len(PersonasOf(last'.args)) < 2)
       => /\ last'.exit = 1
          /\ "Error: Need at least 2 personas" \in last'.stderr
          /\ last'.out = <<>>
          /\ dir' = dir
          /\ registryFile' = registryFile]_vars

\* C9 witness: a `new` with fewer than 2 personas was rejected while the
\* registry held a record.
FewPersonasRejected ==
  /\ last.op = "new"
  /\ Len(PersonasOf(last.args)) < 2
  /\ last.exit = 1
  /\ Len(Registry(registryFile)) >= 1

\* C10: when some record's id equals the identifier, case-insensitively, show
\* locates a record whose id equals it.
ShowPrefersId ==
  (/\ last.op = "show"
   /\ last.fault = NoFault
   /\ \E i \in DOMAIN Registry(registryFile) :
        Lower(Registry(registryFile)[i].id) = Lower(last.args.epistle_id))
    => /\ last.exit = 0
       /\ Lower(last.out[1].id) = Lower(last.args.epistle_id)

\* C11: every record of the registry is the one a show of its own id locates.
ShowReturnsOwnRecord ==
  LET reg == Registry(registryFile)
  IN \A i \in DOMAIN reg :
       ShowRun([epistle_id |-> reg[i].id], dir, registryFile, NoFault).out
         = <<reg[i]>>

\* C12: a show ends NotFound (exit status 1, "not found") exactly when no
\* record of the registry matches the identifier by id or by file prefix; when
\* a record matches and its document is absent it ends with the message
\* "Epistle file not found", without "not found" and without a document
\* read; and a show leaves the registry file and the directory as they were.
ShowOutcomes ==
  [][(last'.op = "show" /\ last'.fault = NoFault)
       => LET reg     == Registry(registryFile)
              target  == Lower(last'.args.epistle_id)
              matches == { i \in DOMAIN reg :
                             \/ Lower(reg[i].id) = target
                             \/ StartsWith(Lower(reg[i].file), target) }
          IN /\ (last'.exit = 1 /\ "not found" \in last'.stderr) <=> matches = {}
             /\ matches = {} => last'.out = <<>>
             /\ \A i \in matches :
                  (\A j \in matches : i <= j) /\ reg[i].file \notin DOMAIN dir
                    => /\ last'.exit = 0
                       /\ last'.stderr = {"Epistle file not found"}
                       /\ last'.out = <<reg[i]>>
                       /\ last'.doc = <<>>
             /\ registryFile' = registryFile
             /\ dir' = dir]_vars

\* C12 witness: a show has located a record whose document is absent, after a
\* show of an identifier no record matches would have ended NotFound.
ShowDocumentMissing ==
  /\ last.op = "show"
  /\ last.fault = NoFault
  /\ last.exit = 0
  /\ "Epistle file not found" \in last.stderr
  /\ last.out[1].file \notin DOMAIN dir
  /\ ShowRun([epistle_id |-> <<"z">>], dir, registryFile, NoFault).exit = 1

\* C19: on every reachable directory the collision loop ends after at most as
\* many rounds as the directory has files, and the name it chooses is not in
\* the directory: the base name when that is unused, else the base name with
\* the suffix _k of the smallest k >= 1 that is unused.
UniqueFilenameMinimal ==
  \A args \in QueryNewArgs :
    LET slug      == PersonaSlug(PersonasOf(args))
        timestamp == StrfTimestamp(clock)
        base      == BaseFilename(slug, timestamp)
        chosen    == UniqueFilename(dir, slug, timestamp)
    IN /\ chosen \notin DOMAIN dir
       /\ base \notin DOMAIN dir => chosen = base
       /\ base \in DOMAIN dir
            => \E k \in 1..Cardinality(DOMAIN dir) :
                 /\ chosen = SuffixedFilename(slug, timestamp, k)
                 /\ \A j \in 1..(k - 1) :
                      SuffixedFilename(slug, timestamp, j) \in DOMAIN dir

\* C19 witness: a `new` has just chosen the name with suffix _1 because the
\* base name was taken, so that the next name of that slug and second is _2.
SuffixChosen ==
  /\ last.op = "new"
  /\ last.exit = 0
  /\ LET slug      == PersonaSlug(PersonasOf(last.args))
         timestamp == StrfTimestamp(clock)
     IN /\ BaseFilename(slug, timestamp) \in DOMAIN dir
        /\ last.out[1].file = SuffixedFilename(slug, timestamp, 1)
        /\ last.out[1].file \in DOMAIN dir
        /\ UniqueFilename(dir, slug, timestamp)
             = SuffixedFilename(slug, timestamp, 2)

\* C16: an add-context whose identifier equals no record's id,
\* case-insensitively, ends NotFound (exit status 1, "not found") and leaves
\* the registry file as it was, also when the identifier is a prefix of the
\* file of a record.
AddContextByIdOnly ==
  [][(/\ last'.op = "add-context"
      /\ last'.fault = NoFault
      /\ \A i \in DOMAIN Registry(registryFile) :
           Lower(Registry(registryFile)[i].id) # Lower(last'.args.epistle_id))
       => /\ last'.exit = 1
          /\ "not found" \in last'.stderr
          /\ last'.out = <<>>
          /\ registryFile' = registryFile]_vars

\* C16 witness: an add-context has ended NotFound on an identifier that is a
\* prefix of the file of a record of the registry.
AddContextFilePrefixNotFound ==
  /\ last.op = "add-context"
  /\ last.fault = NoFault
  /\ last.exit = 1
  /\ \E i \in DOMAIN Registry(registryFile) :
       StartsWith(Lower(Registry(registryFile)[i].file), Lower(last.args.epistle_id))

\* C17: no record of the registry holds the same context path twice.
ContextNoDuplicates ==
  LET reg == Registry(registryFile)
  IN \A r \in DOMAIN reg :
       \A i, j \in DOMAIN Get(reg[r], "context", <<>>) :
         i # j => Get(reg[r], "context", <<>>)[i] # Get(reg[r], "context", <<>>)[j]

\* C18: a successful add-context changes only the context of the first record
\* whose id equals the identifier: the records keep their number and order,
\* every other record and every other field of that record are as before, and
\* its context is the old context followed by the given paths that were not
\* in it, each once, in the order of their first occurrence.
AddContextFrame ==
  [][(last'.op = "add-context" /\ last'.fault = NoFault /\ last'.exit = 0)
       => LET old    == Registry(registryFile)
              new    == Registry(registryFile')
              target == Lower(last'.args.epistle_id)
              i      == CHOOSE i \in DOMAIN old :
                          /\ Lower(old[i].id) = target
                          /\ \A j \in 1..(i - 1) : Lower(old[j].id) # target
              before == Get(old[i], "context", <<>>)
              after  == Get(new[i], "context", <<>>)
              paths  == last'.args.context.l
              added  == SubSeq(after, Len(before) + 1, Len(after))
          IN /\ dir' = dir
             /\ Len(new) = Len(old)
             /\ \A j \in DOMAIN old : j # i => new[j] = old[j]
             /\ DOMAIN new[i] \ {"context"} = DOMAIN old[i] \ {"context"}
             /\ \A k \in DOMAIN old[i] \ {"context"} : new[i][k] = old[i][k]
             /\ last'.out = <<new[i]>>
             /\ SubSeq(after, 1, Len(before)) = before
             /\ Range(added) = Range(paths) \ Range(before)
             /\ \A x, y \in DOMAIN added :
                  x < y => FirstIndex(paths, added[x]) < FirstIndex(paths, added[y])]_vars

\* C18 witness: an add-context of the paths m, n, m has just extended a
\* context that held n with m alone, in a registry of two records.
AddContextExtended ==
  /\ last.op = "add-context"
  /\ last.fault = NoFault
  /\ last.exit = 0
  /\ last.args.context.l = << <<"m">>, <<"n">>, <<"m">> >>
  /\ Len(Registry(registryFile)) >= 2
  /\ \E i \in DOMAIN Registry(registryFile) :
       /\ Registry(registryFile)[i] = last.out[1]
       /\ Get(last.out[1], "context", <<>>) = << <<"n">>, <<"n">>, <<"m">> >>

\* C13: what a list prints is, up to order, the records of the registry that
\* pass every filter supplied: some persona equal to the filter,
\* case-insensitively, and a date >= since; a filter left out, or given as
\* the empty string, excludes nothing.
ListExact ==
  (last.op = "list" /\ last.fault = NoFault)
    => LET reg == Registry(registryFile)
           Passes(e) ==
             /\ Truthy(last.args.filter) => HasPersona(e, last.args.filter.s)
             /\ Truthy(last.args.since) => StrGe(e.date, last.args.since.s)
       IN /\ \A i \in DOMAIN last.out : Passes(last.out[i])
          /\ \A i \in DOMAIN reg :
               Count(last.out, reg[i])
                 = IF Passes(reg[i]) THEN Count(reg, reg[i]) ELSE 0

\* C13 witness: a list with both filters has printed one of two records, the
\* other having the persona but an earlier date.
ListFiltered ==
  /\ last.op = "list"
  /\ last.fault = NoFault
  /\ Truthy(last.args.filter)
  /\ Truthy(last.args.since)
  /\ Len(last.out) = 1
  /\ last.out[1].date = last.args.since.s
  /\ \E i \in DOMAIN Registry(registryFile) :
       /\ HasPersona(Registry(registryFile)[i], last.args.filter.s)
       /\ StrLess(Registry(registryFile)[i].date, last.args.since.s)

\* C14: what a list prints is in descending order of date, and the records
\* of one date are in the order they have in the registry.
ListOrdered ==
  (last.op = "list" /\ last.fault = NoFault)
    => /\ \A i, j \in DOMAIN last.out :
            i < j => StrGe(last.out[i].date, last.out[j].date)
       /\ \A i \in DOMAIN last.out :
            IsSubSeq(SelectSeq(last.out, LAMBDA e : e.date = last.out[i].date),
                     SelectSeq(Registry(registryFile),
                               LAMBDA e : e.date = last.out[i].date))

\* C14 witness: a list has printed a record of the later date before the
\* record of the earlier date that precedes it in the registry.
ListReordered ==
  /\ last.op = "list"
  /\ last.fault = NoFault
  /\ Len(last.out) = 2
  /\ Registry(registryFile) = <<last.out[2], last.out[1]>>
  /\ StrLess(last.out[2].date, last.out[1].date)

\* C15 (as claimed): what a search prints is the subsequence of the registry
\* of the records that pass every filter supplied: the topic filter is a
\* substring of the topic, some persona equals some name listed, some keyword
\* equals some keyword listed, all case-insensitively.
SearchExact ==
  (last.op = "search" /\ last.fault = NoFault)
    => LET names == IF Truthy(last.args.personas)
                    THEN Split(last.args.personas.s, ",") ELSE <<>>
           words == IF Truthy(last.args.keywords)
                    THEN Split(last.args.keywords.s, ",") ELSE <<>>
           Passes(e) ==
             /\ Truthy(last.args.topic)
                  => Contains(Lower(e.topic), Lower(last.args.topic.s))
             /\ Truthy(last.args.personas)
                  => \E n \in DOMAIN names : HasPersona(e, names[n])
             /\ Truthy(last.args.keywords)
                  => \E k \in DOMAIN words, i \in DOMAIN e.keywords :
                       Lower(e.keywords[i]) = Lower(words[k])
       IN last.out = SelectSeq(Registry(registryFile), Passes)

\* C15 (amended): as claimed, with the names listed in the personas filter
\* taken without their leading and trailing whitespace.
SearchExactStripped ==
  (last.op = "search" /\ last.fault = NoFault)
    => LET names == IF Truthy(last.args.personas)
                    THEN Split(last.args.personas.s, ",") ELSE <<>>
           words == IF Truthy(last.args.keywords)
                    THEN Split(last.args.keywords.s, ",") ELSE <<>>
           Passes(e) ==
             /\ Truthy(last.args.topic)
                  => Contains(Lower(e.topic), Lower(last.args.topic.s))
             /\ Truthy(last.args.personas)
                  => \E n \in DOMAIN names : HasPersona(e, Strip(names[n]))
             /\ Truthy(last.args.keywords)
                  => \E k \in DOMAIN words, i \in DOMAIN e.keywords :
                       Lower(e.keywords[i]) = Lower(words[k])
       IN last.out = SelectSeq(Registry(registryFile), Passes)

\* C15 witness: a search by personas has printed the second of two records
\* and not the first, whose second persona is a listed name with its blank.
SearchStripped ==
  /\ last.op = "search"
  /\ last.fault = NoFault
  /\ Truthy(last.args.personas)
  /\ Len(Registry(registryFile)) = 2
  /\ last.out = <<Registry(registryFile)[2]>>
  /\ \E i \in DOMAIN Registry(registryFile)[1].personas :
       Registry(registryFile)[1].personas[i] = <<" ","B">>

\* C20: when a process saves, the registry becomes exactly the sequence that
\* process loaded and changed, whatever the other process has saved since
\* the load.
LastWriterWins ==
  [][\A p \in DOMAIN procs :
       (procs[p].pc = "save" /\ procs'[p].pc = "done")
         => Registry(registryFile') = procs[p].epistles]_vars

\* C20 witness: no invocation is in flight, the process that saved last built
\* a record, and the registry lacks the record another invocation built and
\* saved before it.
UpdateLost ==
  /\ procs # << >>
  /\ \A p \in DOMAIN procs : procs[p].pc = "done"
  /\ last.op = "new"
  /\ \E i \in DOMAIN Registry(registryFile) :
       Registry(registryFile)[i] = last.out[1]
  /\ \E c \in created :
       /\ c.file \in DOMAIN dir
       /\ \A i \in DOMAIN Registry(registryFile) :
            Registry(registryFile)[i].file # c.file

====
